---- MODULE Spec2Model ----
(***************************************************************************)
(* Model of the image server (server.js): the path guard, the metadata     *)
(* extractor, the recursive directory scanner, and the two request         *)
(* handlers GET /api/images and GET /stream/image/*.                        *)
(*                                                                         *)
(* Strings on which the code does textual work (paths, file names) are     *)
(* sequences of one-character strings, so that startsWith, includes,       *)
(* extname and toLowerCase are computed as the code computes them.         *)
(***************************************************************************)
EXTENDS Integers, Sequences, FiniteSets, TLC

(***************************************************************************)
(* Bounds of the model.                                                     *)
(***************************************************************************)
\* how many times the environment may change the file system during a request
MaxFsChanges == 1

(***************************************************************************)
(* Characters and string helpers (JavaScript String methods).               *)
(***************************************************************************)
SLASH == "/"
DOT == "."

\* String.prototype.startsWith
StartsWith(s, pre) ==
    /\ Len(pre) <= Len(s)
    /\ \A i \in 1..Len(pre) : s[i] = pre[i]

\* String.prototype.includes
Includes(s, sub) ==
    \E i \in 1..(Len(s) - Len(sub) + 1) :
        \A j \in 1..Len(sub) : s[i + j - 1] = sub[j]

\* the upper-case letters that occur in the file names of the model
LowerChar(c) ==
    CASE c = "P" -> "p"
      [] c = "N" -> "n"
      [] c = "G" -> "g"
      [] c = "B" -> "b"
      [] OTHER -> c

\* String.prototype.toLowerCase
ToLowerCase(s) == [i \in 1..Len(s) |-> LowerChar(s[i])]

\* String.prototype.split(sep) for a one-character separator
Split(s, sep) ==
    LET F[i \in 0..Len(s)] ==
            IF i = 0 THEN << <<>> >>
            ELSE LET prev == F[i - 1]
                 IN  IF s[i] = sep THEN Append(prev, <<>>)
                     ELSE [prev EXCEPT ![Len(prev)] = Append(@, s[i])]
    IN  F[Len(s)]

\* Array.prototype.join(sep)
JoinWith(segs, sep) ==
    LET F[i \in 0..Len(segs)] ==
            IF i = 0 THEN <<>>
            ELSE IF i = 1 THEN segs[1]
            ELSE F[i - 1] \o <<sep>> \o segs[i]
    IN  F[Len(segs)]

\* index of the last occurrence of character c in s, 0 when there is none
LastIndexOf(s, c) ==
    LET hits == {i \in 1..Len(s) : s[i] = c}
    IN  IF hits = {} THEN 0 ELSE CHOOSE i \in hits : \A j \in hits : j <= i

(***************************************************************************)
(* Node's path module on a POSIX host (path.sep is "/").                    *)
(***************************************************************************)
DOTDOT == <<DOT, DOT>>

\* posix normalizeString: resolve "", "." and ".." segments
NormalizeString(segs, allowAboveRoot) ==
    LET F[i \in 0..Len(segs)] ==
            IF i = 0 THEN <<>>
            ELSE LET acc == F[i - 1]
                     seg == segs[i]
                 IN  IF seg = <<>> \/ seg = <<DOT>> THEN acc
                     ELSE IF seg = DOTDOT
                          THEN IF Len(acc) > 0 /\ acc[Len(acc)] # DOTDOT
                               THEN SubSeq(acc, 1, Len(acc) - 1)
                               ELSE IF allowAboveRoot THEN Append(acc, DOTDOT)
                               ELSE acc
                     ELSE Append(acc, seg)
    IN  F[Len(segs)]

\* path.normalize
Normalize(p) ==
    IF p = <<>> THEN <<DOT>>
    ELSE LET isAbsolute == p[1] = SLASH
             trailing   == p[Len(p)] = SLASH
             body  == JoinWith(NormalizeString(Split(p, SLASH), ~isAbsolute), SLASH)
             body2 == IF body = <<>> /\ ~isAbsolute THEN <<DOT>> ELSE body
             body3 == IF body2 # <<>> /\ trailing THEN Append(body2, SLASH) ELSE body2
         IN  IF isAbsolute THEN <<SLASH>> \o body3 ELSE body3

\* path.join of two arguments: empty arguments are skipped
PathJoin(a, b) ==
    LET joined == IF b = <<>> THEN a
                  ELSE IF a = <<>> THEN b
                  ELSE a \o <<SLASH>> \o b
    IN  Normalize(joined)

\* the non-empty segments of a path
Segments(p) == SelectSeq(Split(p, SLASH), LAMBDA seg : seg # <<>>)

\* path.basename: the last non-empty segment
Basename(p) ==
    LET segs == Segments(p)
    IN  IF segs = <<>> THEN <<>> ELSE segs[Len(segs)]

\* path.extname: from the last "." of the basename, "" when the basename has
\* no "." or only a leading one, or is ".."
Extname(p) ==
    LET base == Basename(p)
        i    == LastIndexOf(base, DOT)
    IN  IF base = DOTDOT \/ i <= 1 THEN <<>>
        ELSE SubSeq(base, i, Len(base))

\* path.relative(from, to) for two normalized absolute paths
Relative(from, to) ==
    LET f == Segments(from)
        t == Segments(to)
        same(k) == k <= Len(f) /\ k <= Len(t) /\ \A j \in 1..k : f[j] = t[j]
        common == CHOOSE k \in 0..Len(f) : same(k) /\ ~same(k + 1)
        ups  == [j \in 1..(Len(f) - common) |-> DOTDOT]
        rest == SubSeq(t, common + 1, Len(t))
    IN  JoinWith(ups \o rest, SLASH)

(***************************************************************************)
(* File names and the file system.  A path of the file system is the       *)
(* sequence of its segment names; a node is a directory or a regular file. *)
(***************************************************************************)
Str_r      == <<"r">>
Str_rx     == <<"r", "x">>
Str_o      == <<"o">>
Str_p      == <<"p">>
Str_d      == <<"d">>
Str_e      == <<"e">>
Str_g      == <<"g">>
Str_x      == <<"x">>
Str_zz     == <<"z", "z">>
Str_a_jpg  == <<"a", ".", "j", "p", "g">>
Str_B_PNG  == <<"B", ".", "P", "N", "G">>
Str_bad_jpg == <<"b", "a", "d", ".", "j", "p", "g">>
Str_n_gif  == <<"n", ".", "g", "i", "f">>
Str_t_txt  == <<"t", ".", "t", "x", "t">>
Str_c_jpeg == <<"c", ".", "j", "p", "e", "g">>
Str_s_jpg  == <<"s", ".", "j", "p", "g">>
Str_zz_jpg == <<"z", "z", ".", "j", "p", "g">>

\* the order in which readdir returns the entries of a directory
NameOrder ==
    << Str_B_PNG, Str_a_jpg, Str_bad_jpg, Str_d, Str_n_gif, Str_t_txt,
       Str_c_jpeg, Str_e, Str_g, Str_s_jpg, Str_p, Str_r, Str_rx, Str_o >>

Dir == [kind |-> "dir", readable |-> TRUE, corrupt |-> FALSE, size |-> 0, exifDate |-> FALSE]
File(corrupt, size, exifDate) ==
    [kind |-> "file", readable |-> TRUE, corrupt |-> corrupt, size |-> size,
     exifDate |-> exifDate]

\* the directory tree at start: the image root /r, a sibling directory /rx
\* whose name begins with the root's name, and an unrelated directory /o
InitFS ==
       (<<>> :> Dir)
    @@ (<<Str_r>> :> Dir)
    @@ (<<Str_r, Str_a_jpg>>   :> File(FALSE, 3, TRUE))
    @@ (<<Str_r, Str_B_PNG>>   :> File(FALSE, 2, FALSE))
    @@ (<<Str_r, Str_bad_jpg>> :> File(TRUE, 1, FALSE))
    @@ (<<Str_r, Str_n_gif>>   :> File(FALSE, 2, FALSE))
    @@ (<<Str_r, Str_t_txt>>   :> File(TRUE, 1, FALSE))
    @@ (<<Str_r, Str_d>> :> Dir)
    @@ (<<Str_r, Str_d, Str_c_jpeg>> :> File(FALSE, 0, FALSE))
    @@ (<<Str_r, Str_d, Str_e>> :> Dir)
    @@ (<<Str_r, Str_d, Str_g>> :> Dir)
    @@ (<<Str_r, Str_d, Str_g, Str_s_jpg>> :> File(FALSE, 2, FALSE))
    @@ (<<Str_rx>> :> Dir)
    @@ (<<Str_rx, Str_s_jpg>> :> File(FALSE, 1, TRUE))
    @@ (<<Str_o>> :> Dir)
    @@ (<<Str_o, Str_p>> :> File(TRUE, 1, FALSE))

\* process.env.EXTERNAL_IMAGE_DIR
EXTERNAL_IMAGE_DIR == <<SLASH>> \o Str_r

IsPrefixSeq(a, b) == Len(a) <= Len(b) /\ SubSeq(b, 1, Len(a)) = a

\* the file system without node n and everything below it
RemoveTree(f, n) == [q \in {q \in DOMAIN f : ~IsPrefixSeq(n, q)} |-> f[q]]

(***************************************************************************)
(* The operating system's answers to the fs calls of the code.             *)
(***************************************************************************)
\* path resolution: "ok", or the errno of the failing lookup
Errno(f, p) ==
    LET segs == Segments(p)
        bad  == {k \in 1..(Len(segs) - 1) :
                    \/ SubSeq(segs, 1, k) \notin DOMAIN f
                    \/ f[SubSeq(segs, 1, k)].kind # "dir"}
        k0   == CHOOSE k \in bad : \A j \in bad : k <= j
    IN  IF bad # {}
        THEN IF SubSeq(segs, 1, k0) \notin DOMAIN f THEN "ENOENT" ELSE "ENOTDIR"
        ELSE IF segs \notin DOMAIN f THEN "ENOENT"
        ELSE IF p[Len(p)] = SLASH /\ Len(segs) > 0 /\ f[segs].kind # "dir" THEN "ENOTDIR"
        ELSE "ok"

\* fsPromises.access(p, mode): "ok" or the error code
FsAccess(f, p, needRead) ==
    LET e == Errno(f, p)
    IN  IF e # "ok" THEN e
        ELSE IF needRead /\ ~f[Segments(p)].readable THEN "EACCES"
        ELSE "ok"

\* fsPromises.stat(p): "ok" or the error code (the Stats are f[Segments(p)])
FsStat(f, p) == Errno(f, p)

\* fsPromises.readFile(p): "ok" or the error code
FsReadFile(f, p) ==
    LET e == Errno(f, p)
        node == f[Segments(p)]
    IN  IF e # "ok" THEN e
        ELSE IF node.kind = "dir" THEN "EISDIR"
        ELSE IF ~node.readable THEN "EACCES"
        ELSE "ok"

\* fsPromises.readdir(p): "ok" or the error code
FsReaddir(f, p) ==
    LET e == Errno(f, p)
        node == f[Segments(p)]
    IN  IF e # "ok" THEN e
        ELSE IF node.kind # "dir" THEN "ENOTDIR"
        ELSE IF ~node.readable THEN "EACCES"
        ELSE "ok"

\* the Dirent names readdir returns for directory p, in readdir order
DirItems(f, p) ==
    LET segs == Segments(p)
    IN  SelectSeq(NameOrder, LAMBDA n : Append(segs, n) \in DOMAIN f)

(***************************************************************************)
(* getImageMetadata                                                        *)
(***************************************************************************)
Ext_jpg  == <<".", "j", "p", "g">>
Ext_jpeg == <<".", "j", "p", "e", "g">>
Ext_png  == <<".", "p", "n", "g">>
Ext_gif  == <<".", "g", "i", "f">>
Ext_tiff == <<".", "t", "i", "f", "f">>

\* the extensions getImageMetadata reads tags for
MetadataExts == {Ext_jpg, Ext_jpeg, Ext_tiff, Ext_png}
\* a variant of ListedExts that forgets gif
ListedExtsWithoutGif == {Ext_jpg, Ext_jpeg, Ext_png}

\* the extensions getImagesRecursively lists
ListedExts == {Ext_jpg, Ext_jpeg, Ext_png, Ext_gif}

\* absent fields of a metadata object
NoSize == -1
NoMetadata ==
    [isNull |-> TRUE, fileName |-> <<>>, fileSize |-> NoSize, dateTime |-> "absent",
     error |-> ""]
\* the object of `metadata || {}`
EmptyObject ==
    [isNull |-> FALSE, fileName |-> <<>>, fileSize |-> NoSize, dateTime |-> "absent",
     error |-> ""]

\* The fs calls of one extraction, in program order: 1 stat, 2 readFile,
\* 3 and 4 the two stats of the catch block.  vanishBefore = k in 1..4 means
\* the file is removed by another process just before call k; 0 means it is not.
MetadataFsAt(f, filePath, k, vanishBefore) ==
    IF vanishBefore # 0 /\ k >= vanishBefore THEN RemoveTree(f, Segments(filePath)) ELSE f

\* the message of the error thrown in the try block, "" when none is thrown
MetadataTryError(f, filePath, vanishBefore) ==
    LET stat  == FsStat(MetadataFsAt(f, filePath, 1, vanishBefore), filePath)
        read  == FsReadFile(MetadataFsAt(f, filePath, 2, vanishBefore), filePath)
        stats == f[Segments(filePath)]
    IN  IF stat # "ok" THEN stat
        ELSE IF stats.kind # "file" THEN "Not a file"
        ELSE IF read # "ok" THEN read
        ELSE IF stats.corrupt THEN "Invalid image format"
        ELSE ""

\* getImageMetadata(filePath): raised = the returned promise rejects;
\* otherwise value is what it resolves to
getImageMetadata(f, filePath, vanishBefore) ==
    LET ext == ToLowerCase(Extname(filePath))
        err == MetadataTryError(f, filePath, vanishBefore)
        catchStats == [k \in {3, 4} |->
                         FsStat(MetadataFsAt(f, filePath, k, vanishBefore), filePath)]
        stats == f[Segments(filePath)]
        name  == Basename(filePath)
    IN  IF ext \notin MetadataExts
        THEN [raised |-> FALSE, value |-> NoMetadata]
        ELSE IF err = ""
        THEN [raised |-> FALSE,
              value |-> [isNull |-> FALSE, fileName |-> name,
                         fileSize |-> stats.size,
                         dateTime |-> IF stats.exifDate THEN "exif" ELSE "mtime",
                         error |-> ""]]
        ELSE IF catchStats[3] # "ok" \/ catchStats[4] # "ok"
        THEN [raised |-> TRUE, value |-> NoMetadata]
        ELSE [raised |-> FALSE,
              value |-> [isNull |-> FALSE, fileName |-> name,
                         fileSize |-> stats.size,
                         dateTime |-> "mtime",
                         error |-> err]]

(***************************************************************************)
(* isPathSafe                                                              *)
(***************************************************************************)
isPathSafe(targetPath) ==
    LET normalizedPath == Normalize(targetPath)
    IN  StartsWith(normalizedPath, EXTERNAL_IMAGE_DIR) /\ ~Includes(normalizedPath, DOTDOT)

(***************************************************************************)
(* getImagesRecursively                                                    *)
(***************************************************************************)
\* no file is removed during the scan
NoVanish == [path |-> <<>>, before |-> 0]

\* the one element of a singleton set
The(S) == CHOOSE v \in S : TRUE

\* the record pushed for a listed file, given the result md of getImageMetadata
ImageRecord(fullPath, name, md) ==
    [path |-> JoinWith(Split(Relative(EXTERNAL_IMAGE_DIR, fullPath), SLASH), SLASH),
     metadata |-> IF md.value.isNull THEN EmptyObject ELSE md.value,
     filename |-> name]

\* the loop body for a Dirent that is a directory: await the recursive call,
\* whose outcome is sub, and concat its images
ScanDirItem(acc, sub) ==
    [images |-> IF sub.threw THEN acc.images ELSE acc.images \o sub.images,
     threw  |-> sub.threw,
     calls  |-> acc.calls \cup sub.calls]

\* the loop body for a Dirent that is a regular file
ScanFileItem(acc, f, fullPath, name, vanish) ==
    IF ToLowerCase(Extname(name)) \notin ListedExts THEN acc
    ELSE The({ [images |-> IF md.raised THEN acc.images
                           ELSE Append(acc.images, ImageRecord(fullPath, name, md)),
                threw  |-> md.raised,
                calls  |-> acc.calls \cup
                           {[path |-> fullPath, raised |-> md.raised,
                             vanishBefore |-> IF vanish.path = fullPath
                                              THEN vanish.before ELSE 0,
                             value |-> md.value]}]
             : md \in {getImageMetadata(f, fullPath,
                         IF vanish.path = fullPath THEN vanish.before ELSE 0)} })

\* one iteration of the for loop over the Dirents; acc.threw means an exception
\* left the loop body earlier, sub is the result of the recursive call
ScanItem(acc, f, dir, name, vanish, sub) ==
    The({ IF acc.threw THEN acc
          ELSE IF f[Segments(fullPath)].kind = "dir" THEN ScanDirItem(acc, sub)
          ELSE IF f[Segments(fullPath)].kind = "file"
          THEN ScanFileItem(acc, f, fullPath, name, vanish)
          ELSE acc
        : fullPath \in {PathJoin(dir, name)} })

\* a variant of ScanCatch without the catch: what is thrown in a scan leaves it
ScanWithoutCatch(try) == try

\* the try/catch of getImagesRecursively: whatever is thrown in the try block
\* is logged and the function returns []
ScanCatch(try) ==
    [images |-> IF try.threw THEN <<>> ELSE try.images,
     threw  |-> FALSE,
     calls  |-> try.calls]

RECURSIVE getImagesRecursively(_, _, _)
\* images: the array the promise resolves to; threw: the promise rejects;
\* calls: the getImageMetadata calls made on the way (kept to state properties
\* of the extractor)
getImagesRecursively(f, dir, vanish) ==
    LET items == DirItems(f, dir)
        Loop[i \in 0..Len(items)] ==
            IF i = 0 THEN [images |-> <<>>, threw |-> FALSE, calls |-> {}]
            ELSE The({ The({ ScanItem(prev, f, dir, items[i], vanish, sub)
                           : sub \in {IF f[Segments(PathJoin(dir, items[i]))].kind = "dir"
                                         /\ ~prev.threw
                                      THEN getImagesRecursively(
                                               f, PathJoin(dir, items[i]), vanish)
                                      ELSE [images |-> <<>>, threw |-> FALSE,
                                            calls |-> {}]} })
                     : prev \in {Loop[i - 1]} })
    IN  ScanCatch(IF FsReaddir(f, dir) # "ok"
                  THEN [images |-> <<>>, threw |-> TRUE, calls |-> {}]
                  ELSE Loop[Len(items)])

(***************************************************************************)
(* Requests.  The path of a request is req.params[0] (streaming) or        *)
(* req.query.folder (listing), as Express hands it to the handler.         *)
(***************************************************************************)
Path(segs) == JoinWith(segs, SLASH)
Pct2F == <<"%", "2", "F">>

RequestPaths ==
    { <<>>,
      Str_a_jpg, Str_B_PNG, Str_bad_jpg, Str_n_gif, Str_t_txt, Str_zz_jpg, Str_d,
      Path(<<Str_d, Str_c_jpeg>>),
      Path(<<Str_d, DOTDOT, Str_a_jpg>>),
      Path(<<Str_a_jpg, Str_x>>),
      Path(<<DOTDOT, Str_rx, Str_s_jpg>>),
      Path(<<DOTDOT, Str_rx>>),
      Path(<<DOTDOT, Str_rx, Str_zz>>),
      Path(<<DOTDOT, Str_o, Str_p>>),
      Path(<<DOTDOT, Str_o, Str_zz>>),
      DOTDOT \o Pct2F \o Str_o \o Pct2F \o Str_p,
      Str_d \o Pct2F \o Str_c_jpeg,
      <<"%">> }

\* decodeURIComponent: %2F is the only escape the requests of the model use;
\* any other "%" is a malformed escape
DecodeThrows(s) ==
    \E i \in 1..Len(s) :
        s[i] = "%" /\ ~(i + 2 <= Len(s) /\ SubSeq(s, i, i + 2) = Pct2F)

RECURSIVE decodeURIComponent(_)
decodeURIComponent(s) ==
    IF s = <<>> THEN <<>>
    ELSE IF Len(s) >= 3 /\ SubSeq(s, 1, 3) = Pct2F
    THEN <<SLASH>> \o decodeURIComponent(SubSeq(s, 4, Len(s)))
    ELSE <<s[1]>> \o decodeURIComponent(Tail(s))

\* raw values of the query parameters w, q, format and of the Accept header.
\* w and q are character strings; an absent parameter is undefined, which
\* parseInt converts to the string "undefined"
Undefined     == <<"u", "n", "d", "e", "f", "i", "n", "e", "d">>
WidthParams   == {Undefined, <<"0">>, <<"6", "4", "0">>, <<"-", "5">>}
QualityParams == {Undefined, <<"1", "5", "0">>, <<"a", "b", "c">>}
FormatParams  == {"absent", "auto", "webp", "original", "png"}
AcceptHeaders == {"absent", "image/webp,*/*", "text/html"}

DigitChars == {"0", "1", "2", "3", "4", "5", "6", "7", "8", "9"}
DigitValue(c) ==
    CASE c = "0" -> 0 [] c = "1" -> 1 [] c = "2" -> 2 [] c = "3" -> 3 [] c = "4" -> 4
      [] c = "5" -> 5 [] c = "6" -> 6 [] c = "7" -> 7 [] c = "8" -> 8 [] c = "9" -> 9

\* the number the first k characters of digits denote
RECURSIVE DigitsValue(_, _)
DigitsValue(digits, k) ==
    IF k = 0 THEN 0 ELSE DigitsValue(digits, k - 1) * 10 + DigitValue(digits[k])

\* parseInt(x): an optional sign, then the longest run of decimal digits;
\* NaN when there is no digit
ParseInt(x) ==
    LET signed == x # <<>> /\ x[1] \in {"-", "+"}
        body   == IF signed THEN Tail(x) ELSE x
        n      == CHOOSE k \in 0..Len(body) :
                      /\ \A i \in 1..k : body[i] \in DigitChars
                      /\ k < Len(body) => body[k + 1] \notin DigitChars
        abs    == DigitsValue(body, n)
    IN  IF n = 0 THEN [nan |-> TRUE, value |-> 0]
        ELSE [nan |-> FALSE, value |-> IF signed /\ x[1] = "-" THEN 0 - abs ELSE abs]

\* parseInt(x) || dflt: NaN and 0 are falsy
ParseIntOr(x, dflt) ==
    IF ParseInt(x).nan \/ ParseInt(x).value = 0 THEN dflt ELSE ParseInt(x).value

\* req.headers.accept?.includes('image/webp'), as a truth value
AcceptsWebP(accept) == accept = "image/webp,*/*"

\* the options object of the streaming handler
Options(w, q, format, accept) ==
    [width |-> ParseIntOr(w, 1280),
     quality |-> ParseIntOr(q, 80),
     format |-> IF format = "absent" THEN "auto" ELSE format,
     acceptsWebP |-> AcceptsWebP(accept)]

NoOptions == [width |-> 0, quality |-> 0, format |-> "", acceptsWebP |-> FALSE]

(***************************************************************************)
(* The response object.                                                    *)
(***************************************************************************)
NewResponse ==
    [statusCode |-> 200, contentType |-> "", cacheControl |-> "",
     servedOriginal |-> FALSE, headersSent |-> FALSE, body |-> ""]

LongCache == "public, max-age=31536000"

\* a variant of Send that writes the status line and the body whatever has
\* been sent before
SendAgain(res, code, text) ==
    [res EXCEPT !.statusCode = code, !.body = text, !.headersSent = TRUE]

\* res.status(code).send(text) / res.status(code).json(...): on a response whose
\* headers are already sent it throws and changes nothing
Send(res, code, text) ==
    IF res.headersSent THEN res
    ELSE [res EXCEPT !.statusCode = code, !.body = text, !.headersSent = TRUE]

\* a variant of handleError that logs the error and sends nothing
handleErrorLogOnly(message, res) == res

\* handleError(error, res), error given by its message
handleError(message, res) ==
    IF res.headersSent THEN res
    ELSE CASE message = "FORBIDDEN_PATH" -> Send(res, 403, "Forbidden")
           [] message = "FILE_NOT_FOUND" -> Send(res, 404, "File not found")
           [] message = "NOT_A_FILE"     -> Send(res, 400, "Not a file")
           [] OTHER                      -> Send(res, 500, "Internal server error")

\* mimeTypes[ext]: server.js declares no mimeTypes, so evaluating the
\* identifier throws a ReferenceError
mimeTypes(ext) == [threw |-> TRUE, value |-> ""]

\* imageProcessor.resize(width, ...) throws on a width that is no positive
\* integer; .webp({ quality }) and .jpeg({ quality }) throw on a quality
\* outside 1..100, .png({ quality }) on one outside 0..100
ResizeThrows(width) == width <= 0
QualityThrows(lowest, quality) == quality < lowest \/ quality > 100

\* applyOriginalFormat(imageProcessor, ext, quality, res)
applyOriginalFormat(res, ext, quality) ==
    IF ext \in {Ext_jpg, Ext_jpeg}
    THEN IF QualityThrows(1, quality) THEN [res |-> res, threw |-> TRUE]
         ELSE [res |-> [res EXCEPT !.contentType = "image/jpeg"], threw |-> FALSE]
    ELSE IF ext = Ext_png
    THEN IF QualityThrows(0, quality) THEN [res |-> res, threw |-> TRUE]
         ELSE [res |-> [res EXCEPT !.contentType = "image/png"], threw |-> FALSE]
    ELSE IF mimeTypes(ext).threw
    THEN [res |-> res, threw |-> TRUE]
    ELSE [res |-> [res EXCEPT !.contentType =
                      IF mimeTypes(ext).value # "" THEN mimeTypes(ext).value
                      ELSE "application/octet-stream"],
          threw |-> FALSE]

\* a variant of processAndStreamImageHead whose format test forgets the Accept
\* header: format === 'webp' || format === 'auto'
processAndStreamImageHeadIgnoringAccept(res, opts, fullPath) ==
    LET fmt == IF ResizeThrows(opts.width) THEN [res |-> res, threw |-> TRUE]
               ELSE IF opts.format = "webp" \/ opts.format = "auto"
               THEN IF QualityThrows(1, opts.quality) THEN [res |-> res, threw |-> TRUE]
                    ELSE [res |-> [res EXCEPT !.contentType = "image/webp"],
                          threw |-> FALSE]
               ELSE applyOriginalFormat(res, ToLowerCase(Extname(fullPath)),
                                        opts.quality)
    IN  IF fmt.threw THEN fmt
        ELSE [res |-> [fmt.res EXCEPT !.cacheControl = LongCache], threw |-> FALSE]

\* processAndStreamImage up to its first await (imageProcessor.metadata()):
\* the resize, the format branch and the two setHeader calls
processAndStreamImageHead(res, opts, fullPath) ==
    LET ext  == ToLowerCase(Extname(fullPath))
        fmt  == IF ResizeThrows(opts.width) THEN [res |-> res, threw |-> TRUE]
                ELSE IF opts.format = "webp" \/ (opts.format = "auto" /\ opts.acceptsWebP)
                THEN IF QualityThrows(1, opts.quality) THEN [res |-> res, threw |-> TRUE]
                     ELSE [res |-> [res EXCEPT !.contentType = "image/webp"],
                           threw |-> FALSE]
                ELSE applyOriginalFormat(res, ext, opts.quality)
    IN  IF fmt.threw THEN fmt
        ELSE [res |-> [fmt.res EXCEPT !.cacheControl = LongCache], threw |-> FALSE]

\* whether the image pipeline can decode the file at fullPath
PipelineOk(f, fullPath) ==
    /\ FsReadFile(f, fullPath) = "ok"
    /\ ~f[Segments(fullPath)].corrupt

\* a variant of streamOriginalFile that sets X-Served-Original first, before the
\* Content-Type line
streamOriginalFileMarkerFirst(res, f, fullPath) ==
    LET ext  == ToLowerCase(Extname(fullPath))
        res0 == [res EXCEPT !.servedOriginal = TRUE]
        res1 == [res0 EXCEPT !.contentType =
                     IF mimeTypes(ext).value # "" THEN mimeTypes(ext).value
                     ELSE "application/octet-stream",
                   !.cacheControl = LongCache]
    IN  IF mimeTypes(ext).threw THEN [res |-> res0, resolved |-> FALSE]
        ELSE IF FsReadFile(f, fullPath) = "ok"
        THEN [res |-> [res1 EXCEPT !.headersSent = TRUE, !.body = "original"],
              resolved |-> TRUE]
        ELSE [res |-> res1, resolved |-> FALSE]

\* streamOriginalFile(fullPath, res): the response afterwards, and whether the
\* returned promise resolved
streamOriginalFile(res, f, fullPath) ==
    LET ext == ToLowerCase(Extname(fullPath))
        res1 == [res EXCEPT !.contentType =
                     IF mimeTypes(ext).value # "" THEN mimeTypes(ext).value
                     ELSE "application/octet-stream",
                   !.cacheControl = LongCache,
                   !.servedOriginal = TRUE]
    IN  IF mimeTypes(ext).threw THEN [res |-> res, resolved |-> FALSE]
        ELSE IF FsReadFile(f, fullPath) = "ok"
        THEN [res |-> [res1 EXCEPT !.headersSent = TRUE, !.body = "original"],
              resolved |-> TRUE]
        ELSE [res |-> res1, resolved |-> FALSE]

\* the catch (processingError) block of the streaming handler
FallbackToOriginal(res, f, fullPath) ==
    LET out == streamOriginalFile(res, f, fullPath)
    IN  IF out.resolved THEN out.res
        ELSE Send(out.res, 500, "Internal Server Error")

(***************************************************************************)
(* State.                                                                  *)
(***************************************************************************)
VARIABLES
    fs,         \* the file system
    fsChanges,  \* how many times the environment changed it during the request
    pc,         \* where the handler of the request in flight stands
    req,        \* the request in flight
    fullPath,   \* fullPath (streaming) or targetDir (listing) of the handler
    options,    \* the options object of the streaming handler
    res,        \* the response object
    images,     \* the images array of a listing response
    calls,      \* the getImageMetadata calls of the listing's scan
    hist        \* the steps the handler has taken, in order

vars == <<fs, fsChanges, pc, req, fullPath, options, res, images, calls, hist>>

NoQuery == [w |-> <<>>, q |-> <<>>, format |-> "unread", accept |-> "unread"]
NoRequest == [endpoint |-> "none", path |-> <<>>, query |-> NoQuery]

Init ==
    /\ fs = InitFS
    /\ fsChanges = 0
    /\ pc = "idle"
    /\ req = NoRequest
    /\ fullPath = <<>>
    /\ options = NoOptions
    /\ res = NewResponse
    /\ images = <<>>
    /\ calls = {}
    /\ hist = <<>>

(***************************************************************************)
(* GET /stream/image/*                                                     *)
(***************************************************************************)
\* a variant of validateRequestHead that forgets the safety check
validateRequestHeadUnchecked(fullPath_) == ""

\* validateRequest up to its first await: the message of the Error it throws
\* when isPathSafe is false, "" when it throws none
validateRequestHead(fullPath_) ==
    IF ~isPathSafe(fullPath_) THEN "FORBIDDEN_PATH" ELSE ""

\* the handler up to the first await of validateRequest: decode, join, isPathSafe
StreamRequest(p) ==
    /\ pc = "idle"
    /\ req' = [endpoint |-> "stream", path |-> p, query |-> NoQuery]
    /\ UNCHANGED <<fs, fsChanges, options, images, calls>>
    /\ IF DecodeThrows(p)
       THEN /\ fullPath' = <<>>
            /\ res' = handleError("URI malformed", res)
            /\ hist' = <<"decodeThrew", "handleError">>
            /\ pc' = "done"
       ELSE LET joined == PathJoin(EXTERNAL_IMAGE_DIR, decodeURIComponent(p))
                thrown == validateRequestHead(joined)
                logged == IF isPathSafe(joined) THEN "isPathSafe:true"
                          ELSE "isPathSafe:false"
            IN  /\ fullPath' = joined
                /\ IF thrown # ""
                   THEN /\ res' = handleError(thrown, res)
                        /\ hist' = <<logged, "handleError">>
                        /\ pc' = "done"
                   ELSE /\ res' = res
                        /\ hist' = <<logged>>
                        /\ pc' = "s_access"

\* validateRequest: await fsPromises.access(fullPath, R_OK)
StreamAccess ==
    /\ pc = "s_access"
    /\ UNCHANGED <<fs, fsChanges, req, fullPath, options, images, calls>>
    /\ LET code == FsAccess(fs, fullPath, TRUE)
       IN  IF code = "ok"
           THEN /\ pc' = "s_stat"
                /\ res' = res
                /\ hist' = Append(hist, "access:ok")
           ELSE /\ pc' = "done"
                /\ res' = handleError(IF code = "ENOENT" THEN "FILE_NOT_FOUND" ELSE code, res)
                /\ hist' = hist \o <<"access:" \o code, "handleError">>

\* validateRequest: await fsPromises.stat(fullPath) and the isFile test; then the
\* options object and processAndStreamImage up to its await of metadata(); when
\* that part throws, the catch block with streamOriginalFile
StreamStat(w, q, format, accept) ==
    /\ pc = "s_stat"
    /\ UNCHANGED <<fs, fsChanges, fullPath, images, calls>>
    /\ LET code == FsStat(fs, fullPath)
           opts == Options(w, q, format, accept)
           head == processAndStreamImageHead(res, opts, fullPath)
       IN  IF code # "ok"
           THEN /\ pc' = "done"
                /\ options' = options
                /\ req' = req
                /\ res' = handleError(IF code = "ENOENT" THEN "FILE_NOT_FOUND" ELSE code, res)
                /\ hist' = hist \o <<"stat:" \o code, "handleError">>
           ELSE IF fs[Segments(fullPath)].kind # "file"
           THEN /\ pc' = "done"
                /\ options' = options
                /\ req' = req
                /\ res' = handleError("NOT_A_FILE", res)
                /\ hist' = hist \o <<"stat:ok", "notAFile", "handleError">>
           ELSE /\ options' = opts
                /\ req' = [req EXCEPT !.query =
                              [w |-> w, q |-> q, format |-> format, accept |-> accept]]
                /\ IF head.threw
                   THEN /\ pc' = "done"
                        /\ res' = FallbackToOriginal(head.res, fs, fullPath)
                        /\ hist' = hist \o <<"stat:ok", "process", "processThrew",
                                     IF FsReadFile(fs, fullPath) = "ok"
                                     THEN "fallback:readable" ELSE "fallback:unreadable">>
                   ELSE /\ pc' = "s_probe"
                        /\ res' = head.res
                        /\ hist' = hist \o <<"stat:ok", "process">>

\* processAndStreamImage: await imageProcessor.metadata(); when it rejects, the
\* catch block with streamOriginalFile
StreamProbe ==
    /\ pc = "s_probe"
    /\ UNCHANGED <<fs, fsChanges, req, fullPath, options, images, calls>>
    /\ IF PipelineOk(fs, fullPath)
       THEN /\ pc' = "s_pipe"
            /\ res' = res
            /\ hist' = Append(hist, "probe:ok")
       ELSE /\ pc' = "done"
            /\ res' = FallbackToOriginal(res, fs, fullPath)
            /\ hist' = hist \o <<"probe:rejected",
                         IF FsReadFile(fs, fullPath) = "ok"
                         THEN "fallback:readable" ELSE "fallback:unreadable">>

\* imageProcessor.pipe(res) writes its first chunk: the headers are committed
\* with status 200
StreamPipeChunk ==
    /\ pc = "s_pipe"
    /\ ~res.headersSent
    /\ PipelineOk(fs, fullPath)
    /\ res' = [res EXCEPT !.headersSent = TRUE, !.body = "partial"]
    /\ hist' = Append(hist, "pipe:chunk")
    /\ UNCHANGED <<fs, fsChanges, pc, req, fullPath, options, images, calls>>

\* imageProcessor.pipe(res) runs to its end: 'finish' on res resolves the promise
StreamPipeFinish ==
    /\ pc = "s_pipe"
    /\ PipelineOk(fs, fullPath)
    /\ pc' = "done"
    /\ res' = [res EXCEPT !.headersSent = TRUE, !.body = "transformed"]
    /\ hist' = Append(hist, "pipe:finish")
    /\ UNCHANGED <<fs, fsChanges, req, fullPath, options, images, calls>>

\* the pipeline emits 'error' while piping (the file was removed or became
\* unreadable after the probe).  The only 'error' listener is on res, the
\* return value of pipe(), so the promise is neither resolved nor rejected
StreamPipeError ==
    /\ pc = "s_pipe"
    /\ ~PipelineOk(fs, fullPath)
    /\ pc' = "s_pending"
    /\ hist' = Append(hist, "pipe:error")
    /\ UNCHANGED <<fs, fsChanges, req, fullPath, options, res, images, calls>>

\* the response emits 'error' while the pipeline is piped into it (the
\* connection broke), before the first chunk or after it: the listener of
\* line 279 rejects the promise, and the catch block runs streamOriginalFile.
\* When its res.status(500).send throws on the committed response, the outer
\* catch calls handleError
StreamResError ==
    /\ pc = "s_pipe"
    /\ pc' = "done"
    /\ LET out == streamOriginalFile(res, fs, fullPath)
           sendThrows == ~out.resolved /\ out.res.headersSent
       IN  /\ res' = IF sendThrows
                     THEN handleError("ERR_HTTP_HEADERS_SENT",
                                      FallbackToOriginal(res, fs, fullPath))
                     ELSE FallbackToOriginal(res, fs, fullPath)
           /\ hist' = hist \o <<"res:error", "processRejected",
                                IF FsReadFile(fs, fullPath) = "ok"
                                THEN "fallback:readable" ELSE "fallback:unreadable">>
                           \o (IF sendThrows THEN <<"handleError">> ELSE <<>>)
    /\ UNCHANGED <<fs, fsChanges, req, fullPath, options, images, calls>>

(***************************************************************************)
(* GET /api/images                                                         *)
(***************************************************************************)
\* the handler up to its first await: join and isPathSafe
ListRequest(folder) ==
    /\ pc = "idle"
    /\ req' = [endpoint |-> "list", path |-> folder, query |-> NoQuery]
    /\ UNCHANGED <<fs, fsChanges, options, images, calls>>
    /\ LET targetDir == PathJoin(EXTERNAL_IMAGE_DIR, folder)
       IN  /\ fullPath' = targetDir
           /\ IF ~isPathSafe(targetDir)
              THEN /\ res' = Send(res, 403, "Invalid path")
                   /\ hist' = <<"isPathSafe:false">>
                   /\ pc' = "done"
              ELSE /\ res' = res
                   /\ hist' = <<"isPathSafe:true">>
                   /\ pc' = "l_access"

\* await fsPromises.access(targetDir)
ListAccess ==
    /\ pc = "l_access"
    /\ UNCHANGED <<fs, fsChanges, req, fullPath, options, images, calls>>
    /\ IF FsAccess(fs, fullPath, FALSE) = "ok"
       THEN /\ pc' = "l_scan"
            /\ res' = res
            /\ hist' = hist \o <<"access:ok", "target:" \o fs[Segments(fullPath)].kind>>
       ELSE /\ pc' = "done"
            /\ res' = Send(res, 404, "Directory not found")
            /\ hist' = hist \o <<"access:failed", "target:none">>

\* the files another process may remove while their metadata is extracted
VanishChoices ==
    {NoVanish} \cup
    IF fsChanges < MaxFsChanges
    THEN {[path |-> <<SLASH>> \o Path(n), before |-> k] :
            n \in {m \in DOMAIN fs : fs[m].kind = "file"}, k \in 1..4}
    ELSE {}

\* await getImagesRecursively(targetDir) and res.json({images}); the catch
\* block of the handler when the scan rejects
ListScan(vanish) ==
    /\ pc = "l_scan"
    /\ LET scan == getImagesRecursively(fs, fullPath, vanish)
           hit  == \E c \in scan.calls : c.vanishBefore # 0
       IN  /\ vanish # NoVanish => hit
           /\ images' = scan.images
           /\ calls' = scan.calls
           /\ fs' = IF hit THEN RemoveTree(fs, Segments(vanish.path)) ELSE fs
           /\ fsChanges' = IF hit THEN fsChanges + 1 ELSE fsChanges
           /\ res' = IF scan.threw THEN Send(res, 500, "Failed to read directory")
                     ELSE Send(res, 200, "images")
    /\ hist' = Append(hist, "scan")
    /\ pc' = "done"
    /\ UNCHANGED <<req, fullPath, options>>

(***************************************************************************)
(* The environment: other processes change the file system while a request *)
(* is in flight.                                                           *)
(***************************************************************************)
InFlight == pc \in {"s_access", "s_stat", "s_probe", "s_pipe", "l_access", "l_scan"}

\* the nodes the handler in flight can observe: the ancestors of its path, the
\* node at its path and the nodes below it
Observed(n) ==
    LET segs == Segments(fullPath)
    IN  n # <<>> /\ (IsPrefixSeq(n, segs) \/ IsPrefixSeq(segs, n))

EnvRemove(n) ==
    /\ InFlight
    /\ fsChanges < MaxFsChanges
    /\ n \in DOMAIN fs /\ Observed(n)
    /\ fs' = RemoveTree(fs, n)
    /\ fsChanges' = fsChanges + 1
    /\ UNCHANGED <<pc, req, fullPath, options, res, images, calls, hist>>

EnvChmod(n) ==
    /\ InFlight
    /\ fsChanges < MaxFsChanges
    /\ n \in DOMAIN fs /\ Observed(n)
    /\ fs[n].readable
    /\ fs' = [fs EXCEPT ![n].readable = FALSE]
    /\ fsChanges' = fsChanges + 1
    /\ UNCHANGED <<pc, req, fullPath, options, res, images, calls, hist>>

\* the next request arrives, on the directory tree of the start
NextRequest ==
    /\ pc = "done"
    /\ pc' = "idle"
    /\ fs' = InitFS
    /\ fsChanges' = 0
    /\ req' = NoRequest
    /\ fullPath' = <<>>
    /\ options' = NoOptions
    /\ res' = NewResponse
    /\ images' = <<>>
    /\ calls' = {}
    /\ hist' = <<>>

Next ==
    \/ \E p \in RequestPaths : StreamRequest(p)
    \/ StreamAccess
    \/ \E w \in WidthParams, q \in QualityParams, format \in FormatParams,
          accept \in AcceptHeaders : StreamStat(w, q, format, accept)
    \/ StreamProbe
    \/ StreamPipeChunk
    \/ StreamPipeFinish
    \/ StreamPipeError
    \/ StreamResError
    \/ \E folder \in RequestPaths : ListRequest(folder)
    \/ ListAccess
    \/ \E vanish \in VanishChoices : ListScan(vanish)
    \/ \E n \in DOMAIN fs : EnvRemove(n)
    \/ \E n \in DOMAIN fs : EnvChmod(n)
    \/ NextRequest

Spec == Init /\ [][Next]_vars

(***************************************************************************)
(* Vocabulary of the properties.                                           *)
(***************************************************************************)
Has(event) == \E i \in 1..Len(hist) : hist[i] = event
StreamDone == pc = "done" /\ req.endpoint = "stream"
ListDone   == pc = "done" /\ req.endpoint = "list"

RootSegs == Segments(EXTERNAL_IMAGE_DIR)
\* the location p names is the root directory or lies below it
InsideRoot(p) == IsPrefixSeq(RootSegs, Segments(p))
\* the relative path the handler joined to the root directory
RequestedPath ==
    IF req.endpoint = "stream" THEN decodeURIComponent(req.path) ELSE req.path
HasDotDotSegment(p) == \E i \in 1..Len(Split(p, SLASH)) : Split(p, SLASH)[i] = DOTDOT

\* the MIME type that belongs to a file extension
MimeOfExt(ext) ==
    CASE ext \in {Ext_jpg, Ext_jpeg} -> "image/jpeg"
      [] ext = Ext_png -> "image/png"
      [] ext = Ext_gif -> "image/gif"
      [] OTHER -> "application/octet-stream"

\* name ends, case-insensitively, in "." followed by one of jpg, jpeg, png, gif
IsListedName(name) ==
    \E e \in {<<"j", "p", "g">>, <<"j", "p", "e", "g">>, <<"p", "n", "g">>,
              <<"g", "i", "f">>} :
        /\ Len(name) > Len(e) + 1
        /\ ToLowerCase(SubSeq(name, Len(name) - Len(e), Len(name))) = <<DOT>> \o e

\* node n lies strictly below the directory the listing scanned
BelowTarget(n) == IsPrefixSeq(Segments(fullPath), n) /\ Len(n) > Len(Segments(fullPath))
\* the directories of the scanned tree whose readdir fails
FailingDirs == {n \in DOMAIN fs : fs[n].kind = "dir" /\ ~fs[n].readable}
\* the image files of the scanned tree, and those outside every failing directory
ListedFiles == {n \in DOMAIN fs : fs[n].kind = "file" /\ BelowTarget(n)
                                  /\ IsListedName(n[Len(n)])}
ListedFilesOutsideFailing ==
    {n \in ListedFiles : \A d \in FailingDirs : ~IsPrefixSeq(d, n)}
\* the root-relative, "/"-separated path of node n
RootRelative(n) ==
    IF IsPrefixSeq(RootSegs, n) THEN Path(SubSeq(n, Len(RootSegs) + 1, Len(n)))
    ELSE Path([i \in 1..Len(RootSegs) |-> DOTDOT] \o n)
ImagePaths == {images[i].path : i \in 1..Len(images)}
\* the scan ran, no file was removed during it and no getImageMetadata call rejected
ScanUndisturbed ==
    ListDone /\ Has("scan") /\ \A c \in calls : ~c.raised /\ c.vanishBefore = 0

\* processAndStreamImage threw or its promise rejected
TranscodeFailed ==
    Has("processThrew") \/ Has("probe:rejected") \/ Has("processRejected")

(***************************************************************************)
(* Properties.                                                             *)
(***************************************************************************)
\* C1: a streaming request whose decoded path, joined to the root directory,
\* lies outside the root directory is answered 403 "Forbidden", whether or
\* not a file exists there.
C1_OutsideRootIsForbidden ==
    (StreamDone /\ ~Has("decodeThrew") /\ ~InsideRoot(fullPath))
        => (res.statusCode = 403 /\ res.body = "Forbidden")

\* C2: for every relative path P that contains a ".." segment or resolves
\* outside the root directory (a sibling directory whose name begins with the
\* root's name included), isPathSafe(join(root, P)) is false.
C2_UnsafePathsRejected ==
    (req.endpoint # "none" /\ ~Has("decodeThrew")
       /\ (HasDotDotSegment(RequestedPath) \/ ~InsideRoot(fullPath)))
        => ~isPathSafe(PathJoin(EXTERNAL_IMAGE_DIR, RequestedPath))

\* C3: when image processing fails for a validated file that is still readable,
\* the response is 200 with the original bytes, the X-Served-Original marker
\* and the Content-Type of the file extension.
C3_FallbackServesOriginal ==
    (StreamDone /\ Has("fallback:readable"))
        => /\ res.statusCode = 200
           /\ res.body = "original"
           /\ res.servedOriginal
           /\ res.contentType = MimeOfExt(ToLowerCase(Extname(fullPath)))

\* C4: for a streaming request whose path passes the safety check, the response
\* is 404 "File not found" when nothing exists at the path and 400 "Not a file"
\* when what exists there is not a regular file.
C4_MissingIs404NotFileIs400 ==
    (StreamDone /\ Has("isPathSafe:true") /\ ~Has("process"))
        => /\ Errno(fs, fullPath) # "ok"
                => (res.statusCode = 404 /\ res.body = "File not found")
           /\ (Errno(fs, fullPath) = "ok" /\ fs[Segments(fullPath)].kind # "file")
                => (res.statusCode = 400 /\ res.body = "Not a file")

\* C5: the listing answers 403 when the joined path fails the safety check, 404
\* "Directory not found" when no directory exists at the joined path (a regular
\* file included), and 200 with the records otherwise.
C5_ListingStatus ==
    ListDone =>
        IF Has("isPathSafe:false") THEN res.statusCode = 403
        ELSE IF ~Has("target:dir")
        THEN res.statusCode = 404 /\ res.body = "Directory not found"
        ELSE res.statusCode = 200 /\ res.body = "images"

\* C6: getImageMetadata never rejects: for a path with a supported extension
\* and any failure of stat, read or parse (the file disappearing during the
\* extraction included) it returns fileName, fileSize and dateTime, and a
\* non-empty error when a step failed.
C6_MetadataNeverRaises ==
    \A c \in calls :
        ToLowerCase(Extname(c.path)) \in MetadataExts
            => /\ ~c.raised
               /\ c.value.fileName # <<>>
               /\ c.value.fileSize # NoSize
               /\ c.value.dateTime # "absent"

\* C7: when reading a subdirectory fails during a scan (and nothing else
\* fails), the listing still answers 200 and holds every image file of the
\* scanned tree that lies outside the failing subdirectories.
C7_SubdirFailureDoesNotAbort ==
    ScanUndisturbed
        => /\ res.statusCode = 200 /\ res.body = "images"
           /\ \A n \in ListedFilesOutsideFailing : RootRelative(n) \in ImagePaths

\* C7, its case: a subdirectory of the scanned tree could not be read, and the
\* listing answered with the files outside it.
C7_Witness ==
    /\ ScanUndisturbed
    /\ \E d \in FailingDirs : BelowTarget(d)
    /\ \E d \in FailingDirs : \E n \in ListedFiles : IsPrefixSeq(d, n)
    /\ Len(images) >= 4

\* C8: on a tree that is read without failure, the scan returns exactly one
\* record per regular file with extension jpg, jpeg, png or gif (in any case)
\* and none for other entries, each with its root-relative "/"-separated path
\* and its file name.
C8_ExactlyTheImageFiles ==
    (ScanUndisturbed /\ FsReaddir(fs, fullPath) = "ok"
       /\ \A d \in FailingDirs : ~IsPrefixSeq(Segments(fullPath), d))
        => /\ Len(images) = Cardinality(ListedFiles)
           /\ ImagePaths = {RootRelative(n) : n \in ListedFiles}
           /\ \A i \in 1..Len(images) :
                 /\ images[i].filename = Basename(images[i].path)
                 /\ ~Includes(images[i].path, <<"\\">>)

\* C8, its case: the whole root directory was listed, with its upper-case
\* name, its gif, its text file and its nested and empty subdirectories.
C8_Witness ==
    /\ ScanUndisturbed
    /\ fullPath = EXTERNAL_IMAGE_DIR
    /\ FailingDirs = {}
    /\ Len(images) = 6

\* C9: a transcoded response has Content-Type image/webp exactly when format
\* is webp, or format is auto (the default) and the Accept header contains
\* image/webp; otherwise it has the Content-Type of the source container.
C9_ContentTypeOfTranscode ==
    (StreamDone /\ res.body = "transformed")
        => LET wantWebp ==
                   \/ req.query.format = "webp"
                   \/ /\ req.query.format \in {"auto", "absent"}
                      /\ req.query.accept = "image/webp,*/*"
           IN  /\ res.contentType = "image/webp" <=> wantWebp
               /\ ~wantWebp
                    => res.contentType = MimeOfExt(ToLowerCase(Extname(fullPath)))

\* C9, its case: format=original on a png source is answered as image/png
\* although the client accepts webp.
C9_Witness ==
    /\ StreamDone /\ res.body = "transformed"
    /\ req.query.format = "original" /\ req.query.accept = "image/webp,*/*"
    /\ res.contentType = "image/png"

\* C10: a streaming response carries the X-Served-Original marker exactly when
\* it is the original file served with status 200 after a transcode failure;
\* no transformed response and no error response carries it.
C10_MarkerOnlyOnOriginal ==
    StreamDone
        => (res.servedOriginal
              <=> (res.body = "original" /\ res.statusCode = 200
                     /\ TranscodeFailed))

\* C10, its case: a transcode failure ended in an error response, which
\* carries no marker.
C10_Witness ==
    /\ StreamDone
    /\ Has("probe:rejected")
    /\ res.statusCode = 500
    /\ ~res.servedOriginal

\* the steps of hist that are no file system operation: the safety check and
\* its log line, the decode failure, the thrown errors and the error responses
NonFsEvents ==
    {"isPathSafe:true", "isPathSafe:false", "decodeThrew", "handleError",
     "notAFile", "processThrew", "processRejected"}
IsFsEvent(event) == event \notin NonFsEvents

\* C11: in both endpoints every file system operation of a request (access,
\* stat, readdir, readFile, opening the image pipeline, the fallback's read
\* stream) comes after isPathSafe has returned true for the joined path of
\* that request.
C11_SafetyCheckBeforeFs ==
    \A i \in 1..Len(hist) :
        IsFsEvent(hist[i])
            => /\ isPathSafe(fullPath)
               /\ \E j \in 1..(i - 1) : hist[j] = "isPathSafe:true"

\* C11, its case: a streaming request went through access, stat, the opening
\* of the pipeline and the probe.
C11_Witness ==
    /\ req.endpoint = "stream"
    /\ hist[1] = "isPathSafe:true"
    /\ Has("access:ok") /\ Has("stat:ok") /\ Has("process") /\ Has("probe:ok")
    /\ Len(hist) >= 5

\* validateRequest threw: the safety check failed, access or stat rejected, or
\* what stat found is no regular file
ValidationFailed ==
    /\ req.endpoint = "stream"
    /\ \/ Has("isPathSafe:false")
       \/ \E i \in 1..Len(hist) :
              hist[i] \in {"access:ENOENT", "access:ENOTDIR", "access:EACCES",
                           "stat:ENOENT", "stat:ENOTDIR", "stat:EACCES", "notAFile"}
ErrorStatuses == {400, 403, 404, 500}
ImageBodies == {"transformed", "original"}

\* C12: whenever validateRequest fails, neither processAndStreamImage nor
\* streamOriginalFile is invoked for the request, and the response is an error
\* status without image bytes.
C12_ValidationIsHardGate ==
    ValidationFailed
        => /\ pc = "done"
           /\ ~Has("process") /\ ~Has("processThrew")
           /\ ~Has("fallback:readable") /\ ~Has("fallback:unreadable")
           /\ ~Has("probe:ok") /\ ~Has("probe:rejected")
           /\ res.headersSent
           /\ res.statusCode \in ErrorStatuses
           /\ res.body \notin ImageBodies

\* C12, its case: validation failed at stat's isFile test, after the safety
\* check and access had passed.
C12_Witness ==
    /\ ValidationFailed
    /\ Has("isPathSafe:true") /\ Has("access:ok") /\ Has("notAFile")
    /\ res.statusCode = 400

\* the probe imageProcessor.metadata() has settled
ProbeSettled == Has("probe:ok") \/ Has("probe:rejected")

\* C13: in processAndStreamImage no response header (Content-Type,
\* Cache-Control) is set before the probe imageProcessor.metadata() has
\* completed.
C13_ProbeBeforeHeaders ==
    (req.endpoint = "stream" /\ (res.contentType # "" \/ res.cacheControl # ""))
        => ProbeSettled

C15_PipelineErrorRejects ==
    Has("pipe:error") => (Has("probe:ok") /\ Has("processRejected"))

\* streamOriginalFile has been called
FallbackRan == Has("fallback:readable") \/ Has("fallback:unreadable")

\* C16: when the fallback stream of the original file fails, the generic 500
\* is sent only if nothing of the response has been sent yet; on a response
\* whose headers or body bytes are committed, no status line, header or error
\* body is written afterwards.
C16_No500AfterCommit ==
    [][(FallbackRan' /\ ~FallbackRan /\ res'.body # "original")
          => IF res.headersSent
             THEN res' = res
             ELSE /\ res'.statusCode = 500
                  /\ res'.body = "Internal Server Error"
                  /\ res'.headersSent]_vars

\* C16, its case: the fallback failed after the first chunk of the transcoded
\* image had committed the response, which stays as it was.
C16_Witness ==
    /\ StreamDone
    /\ Has("pipe:chunk") /\ Has("res:error") /\ FallbackRan /\ Has("handleError")
    /\ res.statusCode = 200 /\ res.body = "partial"

\* the streaming handler stands at an await whose operation is pending: the
\* guards of StreamAccess, StreamStat, StreamProbe, StreamPipeChunk,
\* StreamPipeFinish, StreamPipeError and StreamResError
StreamStepPending == pc \in {"s_access", "s_stat", "s_probe", "s_pipe"}
\* how often event occurs in hist
Count(event) == Cardinality({i \in 1..Len(hist) : hist[i] = event})

\* C17: every streaming request moves through validation, the transcode
\* attempt and (only after a transcode failure, at most once) the fallback, in
\* that order, and reaches a terminal state with a completed response: as long
\* as it has not, a step of its handler is pending, also when the file is
\* removed after validation or the pipeline errors during streaming.
C17_StreamRequestCompletes ==
    req.endpoint = "stream"
        => /\ Has("process") => (Has("stat:ok") /\ ~ValidationFailed)
           /\ FallbackRan => (Has("process") /\ TranscodeFailed)
           /\ Count("fallback:readable") + Count("fallback:unreadable") <= 1
           /\ pc = "done" => res.headersSent
           /\ pc # "done" => StreamStepPending

\* a file of the scan disappeared while getImageMetadata was extracting it
FileVanishedInScan ==
    ListDone /\ Has("scan") /\ \E c \in calls : c.vanishBefore # 0

\* C18: when a file disappears between the start of its metadata extraction
\* and the stat of getImageMetadata's error branch, only that file is affected:
\* every other image file of the scanned tree (outside unreadable
\* directories) still appears in the listing.
C18_VanishAffectsOneFile ==
    FileVanishedInScan
        => /\ res.statusCode = 200
           /\ \A n \in ListedFilesOutsideFailing : RootRelative(n) \in ImagePaths

\* C19: for every combination of w, q and format (absent, non-numeric, zero,
\* negative, out of range) the options object passed to processAndStreamImage
\* has a positive integer width (1280 when w is absent or unparsable), an
\* integer quality in 1..100 (80 when q is absent or unparsable) and a format
\* among auto, webp and original (auto when absent).
C19_OptionsInRange ==
    (req.endpoint = "stream" /\ Has("process"))
        => /\ options.width \in Nat \ {0}
           /\ ParseInt(req.query.w).nan => options.width = 1280
           /\ options.quality \in 1..100
           /\ ParseInt(req.query.q).nan => options.quality = 80
           /\ options.format \in {"auto", "webp", "original"}
           /\ req.query.format = "absent" => options.format = "auto"

\* C20: a streaming response carries Cache-Control: public, max-age=31536000
\* only when it is a 200 response with image bytes; no error response (403,
\* 404, 400, or the 500 sent after transcode and fallback both failed)
\* carries it.
C20_LongCacheOnlyOnImages ==
    (StreamDone /\ res.cacheControl # "")
        => /\ res.cacheControl = LongCache
           /\ res.statusCode = 200
           /\ res.body \in ImageBodies \cup {"partial"}

====
